---- MODULE Spec2Model ----
(***************************************************************************)
(* DT-BASE causal model execution (src/dt_base.ipynb).                     *)
(*                                                                         *)
(* The notebook is a straight-line program: its code cells run top to      *)
(* bottom, each cell transforming the kernel's global variables.  One      *)
(* action models one code cell; the inference cell, which is a loop, is    *)
(* modelled by one action per statement of its body.                       *)
(*                                                                         *)
(* Floating point values are modelled as exact rationals <<n, d>> with     *)
(* d > 0 in lowest terms, plus NaN (the result of 0.0 / 0.0 in numpy).     *)
(* A pandas Series / numpy array of numSamples values is a sequence        *)
(* indexed by the sample number 1..numSamples.                             *)
(***************************************************************************)
EXTENDS Integers, Sequences, FiniteSets, TLC

----------------------------------------------------------------------------
(* Bounds of the model *)

\* number of Monte Carlo samples (100000 in the notebook)
MaxSamples == 2

\* largest number of rows of the edge table
MaxEdges == 2

----------------------------------------------------------------------------
(* Floating point arithmetic *)

RECURSIVE GCD(_, _)
GCD(x, y) == IF y = 0 THEN x ELSE GCD(y, x % y)

Abs(x) == IF x < 0 THEN -x ELSE x

NaN == <<0, 0>>

IsNaN(x) == x[2] = 0

\* n / d in lowest terms, d > 0
Rat(n, d) == LET g == GCD(Abs(n), d) IN <<n \div g, d \div g>>

Zero == <<0, 1>>

One == <<1, 1>>

RAdd(x, y) ==
    IF IsNaN(x) \/ IsNaN(y) THEN NaN
    ELSE LET g == GCD(x[2], y[2])
         IN  Rat(x[1] * (y[2] \div g) + y[1] * (x[2] \div g), (x[2] \div g) * y[2])

RNeg(x) == IF IsNaN(x) THEN NaN ELSE <<-x[1], x[2]>>

RSub(x, y) == RAdd(x, RNeg(y))

RMul(x, y) ==
    IF IsNaN(x) \/ IsNaN(y) THEN NaN
    ELSE LET g1 == GCD(Abs(x[1]), y[2])
             g2 == GCD(Abs(y[1]), x[2])
         IN  Rat((x[1] \div g1) * (y[1] \div g2), (x[2] \div g2) * (y[2] \div g1))

\* numpy division: 0.0 / 0.0 is NaN and raises nothing.  (x / 0.0 with x # 0
\* is +-inf; the raw weights are products of draws from [0, 1], so a zero
\* divisor here always comes with a zero dividend.)
RDiv(x, y) ==
    IF IsNaN(x) \/ IsNaN(y) THEN NaN
    ELSE IF y[1] = 0 THEN NaN
    ELSE IF y[1] < 0 THEN RMul(<<-x[1], x[2]>>, <<y[2], -y[1]>>)
    ELSE RMul(x, <<y[2], y[1]>>)

\* comparisons with NaN are false, as in IEEE 754
RLe(x, y) == ~IsNaN(x) /\ ~IsNaN(y) /\ x[1] * y[2] <= y[1] * x[2]

----------------------------------------------------------------------------
(* Element-wise arithmetic of pandas Series / numpy arrays *)

numSamples == MaxSamples

Samples == 1..numSamples

VConst(x) == [s \in Samples |-> x]

VAdd(u, v) == [s \in Samples |-> RAdd(u[s], v[s])]

VSub(u, v) == [s \in Samples |-> RSub(u[s], v[s])]

VMul(u, v) == [s \in Samples |-> RMul(u[s], v[s])]

VDiv(u, v) == [s \in Samples |-> RDiv(u[s], v[s])]

----------------------------------------------------------------------------
(* Input tables *)

Half == Rat(1, 2)

\* data/refs.csv: ref_id -> bounds of m1
refs ==
    [r0 |-> [m1A |-> Zero, m1B |-> Zero],
     r1 |-> [m1A |-> Half, m1B |-> Half],
     r2 |-> [m1A |-> One, m1B |-> One]]

RefIds == DOMAIN refs

NodeIds == {"a", "b", "tq"}

\* data/nodes.csv: the node ids in row order; the last table lacks the target
NodeTables == {<<"a", "b", "tq">>, <<"a", "tq">>, <<"a", "b">>}

EdgeRow(p, c, r, w2, w3) ==
    [parent_id |-> p, child_id |-> c, ref_id |-> r,
     m2A |-> w2, m2B |-> w2, m3A |-> w3, m3B |-> w3]

\* rows data/edges.csv may hold
EdgeRows ==
    { EdgeRow("a", "tq", "r1", Rat(4, 5), One),
      EdgeRow("a", "tq", "r1", Half, Half),
      EdgeRow("a", "tq", "r0", Half, One),
      EdgeRow("b", "tq", "r2", Half, One),
      EdgeRow("tq", "a", "r1", Half, One),
      EdgeRow("a", "a", "r1", Half, One) }

\* data/edges.csv: rows in edge_id order, edge_id = position
EdgeTables == UNION { [1..n -> EdgeRows] : n \in 0..MaxEdges }

----------------------------------------------------------------------------
VARIABLES
    pc,           \* the cell (or loop statement) that runs next
    nodes,        \* nodes.index
    edges,        \* the edges dataframe
    m1, m2, m3,   \* sampled parameters: id -> Series
    leak,         \* sampled leak: array
    normWeights,  \* dict (parent, child) -> Series
    weights,      \* dict edge_id -> Series
    superEdges,   \* dict (parent, child) -> Series, with its key order
    G,            \* networkx DiGraph
    cptCombos,    \* dict node -> list of combinations
    cpts,         \* dict node -> flat list of Series
    bbnNodes,     \* dict node id -> BbnNode
    bbnEdges,     \* list of pybbn Edge
    dt_base,      \* pybbn Bbn
    sample,       \* loop variable of the inference loop
    nodeIdx,      \* position of the inner loop over bbnNodes.items()
    join_tree,    \* the join tree InferenceController.apply returned
    target_probs, \* list of target potentials
    p             \* pd.Series of P(tq = Bad)

vars == <<pc, nodes, edges, m1, m2, m3, leak, normWeights, weights, superEdges,
          G, cptCombos, cpts, bbnNodes, bbnEdges, dt_base, sample, nodeIdx,
          join_tree, target_probs, p>>

\* an empty dict / list / unset variable
Empty == <<>>

EdgeIds == 1..Len(edges)

\* edge = (edges.parent_id[edge_id], edges.child_id[edge_id])
EdgeOf(edge_id) == <<edges[edge_id].parent_id, edges[edge_id].child_id>>

\* dict.get(key, default) and dict[key] = value
DictGet(d, k, default) == IF k \in DOMAIN d THEN d[k] ELSE default

DictPut(d, k, v) == [x \in (DOMAIN d) \cup {k} |-> IF x = k THEN v ELSE d[x]]

----------------------------------------------------------------------------
(* Uncertainty characterization *)

\* the values of the random source that the model draws: numbers of [0, 1)
RandomPoints == {Zero, Rat(5, 9)}

\* np.random.uniform(low, high): low + (high - low) * u for u in [0, 1)
Uniform(low, high) == { RAdd(low, RMul(RSub(high, low), u)) : u \in RandomPoints }

\* np.random.uniform(low, high, size=(numSamples, ))
UniformVec(low, high) == [Samples -> Uniform(low, high)]

Init ==
    /\ pc = "sample"
    /\ nodes \in NodeTables
    /\ edges \in EdgeTables
    /\ m1 = Empty /\ m2 = Empty /\ m3 = Empty /\ leak = Empty
    /\ normWeights = Empty /\ weights = Empty
    /\ superEdges = [keys |-> <<>>, val |-> Empty]
    /\ G = [nodes |-> <<>>, edges |-> <<>>]
    /\ cptCombos = Empty /\ cpts = Empty
    /\ bbnNodes = Empty /\ bbnEdges = <<>>
    /\ dt_base = [nodes |-> {}, edges |-> {}]
    /\ sample = 0 /\ nodeIdx = 0
    /\ join_tree = Empty /\ target_probs = <<>> /\ p = <<>>

\* m1, m2, m3 cell
SampleDraws ==
    /\ pc = "sample"
    /\ LET V1 == UNION { UniformVec(refs[r].m1A, refs[r].m1B) : r \in RefIds }
           V2 == UNION { UniformVec(edges[e].m2A, edges[e].m2B) : e \in EdgeIds }
           V3 == UNION { UniformVec(edges[e].m3A, edges[e].m3B) : e \in EdgeIds }
       IN  /\ m1' \in { f \in [RefIds -> V1] :
                          \A r \in RefIds : f[r] \in UniformVec(refs[r].m1A, refs[r].m1B) }
           /\ m2' \in { f \in [EdgeIds -> V2] :
                          \A e \in EdgeIds : f[e] \in UniformVec(edges[e].m2A, edges[e].m2B) }
           /\ m3' \in { f \in [EdgeIds -> V3] :
                          \A e \in EdgeIds : f[e] \in UniformVec(edges[e].m3A, edges[e].m3B) }
    /\ pc' = "normWeights"
    /\ UNCHANGED <<nodes, edges, leak, normWeights, weights, superEdges, G, cptCombos,
                   cpts, bbnNodes, bbnEdges, dt_base, sample, nodeIdx,
                   join_tree, target_probs, p>>

----------------------------------------------------------------------------
(* Aggregating edges *)

\* m1[edges.ref_id[edge_id]] * m3[edge_id]
RawWeight(edge_id) == VMul(m1[edges[edge_id].ref_id], m3[edge_id])

\* the normWeights dict after the first n rows of the loop
RECURSIVE NormWeightsLoop(_)
NormWeightsLoop(n) ==
    IF n = 0 THEN Empty
    ELSE LET d == NormWeightsLoop(n - 1)
             edge == EdgeOf(n)
         IN  DictPut(d, edge, VAdd(DictGet(d, edge, VConst(Zero)), RawWeight(n)))

NormWeightsCell ==
    /\ pc = "normWeights"
    /\ normWeights' = NormWeightsLoop(Len(edges))
    /\ pc' = "weights"
    /\ UNCHANGED <<nodes, edges, m1, m2, m3, leak, weights, superEdges, G, cptCombos,
                   cpts, bbnNodes, bbnEdges, dt_base, sample, nodeIdx,
                   join_tree, target_probs, p>>

\* the raw weight left undivided
WeightOfUnnormalised(edge_id) == RawWeight(edge_id)

\* (m1[edges.ref_id[edge_id]] * m3[edge_id]) / normWeights[edge]
WeightOf(edge_id) == VDiv(RawWeight(edge_id), normWeights[EdgeOf(edge_id)])

WeightsCell ==
    /\ pc = "weights"
    /\ weights' = [edge_id \in EdgeIds |-> WeightOf(edge_id)]
    /\ pc' = "superEdges"
    /\ UNCHANGED <<nodes, edges, m1, m2, m3, leak, normWeights, superEdges, G, cptCombos,
                   cpts, bbnNodes, bbnEdges, dt_base, sample, nodeIdx,
                   join_tree, target_probs, p>>

\* weights[edge_id] * m2[edge_id]
Contribution(edge_id) == VMul(weights[edge_id], m2[edge_id])

\* the superEdges dict after the first n rows of the loop; a dict keeps its keys
\* in insertion order
RECURSIVE SuperEdgesLoop(_)
SuperEdgesLoop(n) ==
    IF n = 0 THEN [keys |-> <<>>, val |-> Empty]
    ELSE LET d == SuperEdgesLoop(n - 1)
             edge == EdgeOf(n)
         IN  [keys |-> IF edge \in DOMAIN d.val THEN d.keys ELSE Append(d.keys, edge),
              val  |-> DictPut(d.val, edge,
                               VAdd(DictGet(d.val, edge, VConst(Zero)), Contribution(n)))]

SuperEdgesCell ==
    /\ pc = "superEdges"
    /\ superEdges' = SuperEdgesLoop(Len(edges))
    /\ pc' = "G"
    /\ UNCHANGED <<nodes, edges, m1, m2, m3, leak, normWeights, weights, G, cptCombos,
                   cpts, bbnNodes, bbnEdges, dt_base, sample, nodeIdx,
                   join_tree, target_probs, p>>

----------------------------------------------------------------------------
(* DT-BASE BBN: the networkx graph *)

Range(s) == { s[i] : i \in DOMAIN s }

AppendNew(s, x) == IF x \in Range(s) THEN s ELSE Append(s, x)

\* G.add_edges_from(keys): nodes are added in order of first appearance
RECURSIVE AddEdgesFrom(_, _)
AddEdgesFrom(keys, n) ==
    IF n = 0 THEN [nodes |-> <<>>, edges |-> <<>>]
    ELSE LET g == AddEdgesFrom(keys, n - 1)
         IN  [nodes |-> AppendNew(AppendNew(g.nodes, keys[n][1]), keys[n][2]),
              edges |-> Append(g.edges, keys[n])]

\* nx.DiGraph accepts any edge list: self-loops and cycles included
GCell ==
    /\ pc = "G"
    /\ G' = AddEdgesFrom(superEdges.keys, Len(superEdges.keys))
    /\ pc' = "cptCombos"
    /\ UNCHANGED <<nodes, edges, m1, m2, m3, leak, normWeights, weights, superEdges,
                   cptCombos, cpts, bbnNodes, bbnEdges, dt_base, sample, nodeIdx,
                   join_tree, target_probs, p>>

----------------------------------------------------------------------------
(* Conditional probability tables *)

\* list(adj[1].keys()) of G.reverse().adjacency(): the predecessors of node, in
\* the order G.edges lists their edges, which is the node order of G
Incoming(g, node) ==
    SelectSeq(g.nodes, LAMBDA u : <<u, node>> \in Range(g.edges))

RECURSIVE Pow2(_)
Pow2(k) == IF k = 0 THEN 1 ELSE 2 * Pow2(k - 1)

\* the j-th tuple of itertools.product([True, False], repeat = k): the first
\* position varies slowest and True comes before False
ProductTuple(k, j) == [i \in 1..k |-> ((j - 1) \div Pow2(k - i)) % 2 = 0]

\* exprvar(name) if t[i] else ~exprvar(name): var tells a pyeda Variable from
\* a Complement
CombosOf(incoming) ==
    [j \in 1..Pow2(Len(incoming)) |->
        [i \in 1..Len(incoming) |->
            [name |-> incoming[i], var |-> ProductTuple(Len(incoming), j)[i]]]]

CptCombosCell ==
    /\ pc = "cptCombos"
    /\ cptCombos' = [node \in Range(G.nodes) |-> CombosOf(Incoming(G, node))]
    /\ pc' = "leak"
    /\ UNCHANGED <<nodes, edges, m1, m2, m3, leak, normWeights, weights, superEdges,
                   G, cpts, bbnNodes, bbnEdges, dt_base, sample, nodeIdx,
                   join_tree, target_probs, p>>

\* leak = np.random.uniform(.9, .99, (numSamples, ))
LeakCell ==
    /\ pc = "leak"
    /\ leak' \in UniformVec(Rat(9, 10), Rat(99, 100))
    /\ pc' = "cpts"
    /\ UNCHANGED <<nodes, edges, m1, m2, m3, normWeights, weights, superEdges,
                   G, cptCombos, cpts, bbnNodes, bbnEdges, dt_base, sample, nodeIdx,
                   join_tree, target_probs, p>>

\* tmp after the first i literals of combo: tmp = 1, then for each pyeda
\* Variable (not Complement) tmp *= (1 - superEdges[parent.name, node])
RECURSIVE TmpAfter(_, _, _)
TmpAfter(node, combo, i) ==
    IF i = 0 THEN VConst(One)
    ELSE LET prev == TmpAfter(node, combo, i - 1)
         IN  IF combo[i].var
             THEN VMul(prev, VSub(VConst(One), superEdges.val[<<combo[i].name, node>>]))
             ELSE prev

\* [1 - leak * tmp, leak * tmp]
NoisyOrPair(tmp) == <<VSub(VConst(One), VMul(leak, tmp)), VMul(leak, tmp)>>

\* the extend moved out of the parent loop: one pair per combination, the
\* empty combination of a parentless node included
ComboEntriesDedented(node, combo, i) == NoisyOrPair(TmpAfter(node, combo, i))

\* what the body of "for combo in combinations" appends to cpts[node] up to
\* the i-th parent: the extend is inside "for parent in combo", so it runs
\* once per parent, on the product accumulated so far
RECURSIVE ComboEntries(_, _, _)
ComboEntries(node, combo, i) ==
    IF i = 0 THEN <<>>
    ELSE ComboEntries(node, combo, i - 1) \o NoisyOrPair(TmpAfter(node, combo, i))

\* cpts[node] after the first j combinations of the node
RECURSIVE NodeEntries(_, _)
NodeEntries(node, j) ==
    IF j = 0 THEN <<>>
    ELSE NodeEntries(node, j - 1)
         \o ComboEntries(node, cptCombos[node][j], Len(cptCombos[node][j]))

\* cpts[node] raises KeyError when the node is not in nodes.index; the
\* statement is reached only for a node with at least one parent
Raises(node) == node \notin Range(nodes) /\ Len(cptCombos[node][1]) > 0

\* the loop over cptCombos.items(), in the key order of the dict (the node
\* order of G), up to the n-th node or the first KeyError
RECURSIVE CptsLoop(_)
CptsLoop(n) ==
    IF n = 0 THEN [d |-> [node \in Range(nodes) |-> <<>>], ok |-> TRUE]
    ELSE LET prev == CptsLoop(n - 1)
             node == G.nodes[n]
         IN  IF ~prev.ok \/ Raises(node) THEN [d |-> prev.d, ok |-> FALSE]
             ELSE IF node \in Range(nodes)
                  THEN [d  |-> [prev.d EXCEPT ![node] =
                                   NodeEntries(node, Len(cptCombos[node]))],
                        ok |-> TRUE]
                  ELSE prev

CptsCell ==
    /\ pc = "cpts"
    /\ LET r == CptsLoop(Len(G.nodes))
       IN  /\ cpts' = r.d
           /\ pc' = IF r.ok THEN "bbnNodes" ELSE "KeyError"
    /\ UNCHANGED <<nodes, edges, m1, m2, m3, leak, normWeights, weights, superEdges,
                   G, cptCombos, bbnNodes, bbnEdges, dt_base, sample, nodeIdx,
                   join_tree, target_probs, p>>

----------------------------------------------------------------------------
(* BBN quantification: the pybbn network *)

PositionOf(s, x) == CHOOSE i \in DOMAIN s : s[i] = x

\* BbnNode(Variable(i, node.Index, ['Good', 'Bad']), [1, 0])
BbnNode(i, name) ==
    [id |-> i, name |-> name, values |-> <<"Good", "Bad">>, probs |-> <<One, Zero>>]

BbnNodesCell ==
    /\ pc = "bbnNodes"
    /\ bbnNodes' = [n \in Range(nodes) |-> BbnNode(PositionOf(nodes, n) - 1, n)]
    /\ pc' = "bbnEdges"
    /\ UNCHANGED <<nodes, edges, m1, m2, m3, leak, normWeights, weights, superEdges,
                   G, cptCombos, cpts, bbnEdges, dt_base, sample, nodeIdx,
                   join_tree, target_probs, p>>

\* [Edge(a, b, EdgeType.DIRECTED) for a, b in superEdges]
BbnEdgesCell ==
    /\ pc = "bbnEdges"
    /\ bbnEdges' = [k \in 1..Len(superEdges.keys) |->
                       [i |-> superEdges.keys[k][1], j |-> superEdges.keys[k][2]]]
    /\ pc' = "dt_base"
    /\ UNCHANGED <<nodes, edges, m1, m2, m3, leak, normWeights, weights, superEdges,
                   G, cptCombos, cpts, bbnNodes, dt_base, sample, nodeIdx,
                   join_tree, target_probs, p>>

\* for node in bbnNodes.values(): dt_base.add_node(node)
AddNodes(bbn, ns) == [bbn EXCEPT !.nodes = bbn.nodes \cup Range(ns)]

\* for edge in bbnEdges: dt_base.add_edge
\* the loop body names the bound method and does not call it: the expression
\* statement has no effect
AddEdges(bbn, es) == bbn

DtBaseCell ==
    /\ pc = "dt_base"
    /\ dt_base' = AddEdges(AddNodes([nodes |-> {}, edges |-> {}], nodes), bbnEdges)
    /\ pc' = "inference"
    /\ UNCHANGED <<nodes, edges, m1, m2, m3, leak, normWeights, weights, superEdges,
                   G, cptCombos, cpts, bbnNodes, bbnEdges, sample, nodeIdx,
                   join_tree, target_probs, p>>

----------------------------------------------------------------------------
(* The inference loop *)

\* the parents of a node in the network, in variable id order
NetParents(bbn, n) == SelectSeq(nodes, LAMBDA u : <<u, n>> \in bbn.edges)

\* PotentialInitializer: the potential of a node ranges over its parents'
\* values and then its own, and takes its entries from node.probs in order
InitPotential(bbn, n) ==
    LET parents == NetParents(bbn, n)
    IN  [parents |-> parents,
         entries |-> SubSeq(bbnNodes[n].probs, 1, Pow2(Len(parents) + 1))]

\* position of an assignment's entry in a potential: the first parent varies
\* slowest, the node's own value fastest; 0 is 'Good', 1 is 'Bad'
RECURSIVE ParentsIndex(_, _, _)
ParentsIndex(x, parents, i) ==
    IF i = 0 THEN 0 ELSE 2 * ParentsIndex(x, parents, i - 1) + x[parents[i]]

EntryOf(pot, n, x) ==
    pot[n].entries[2 * ParentsIndex(x, pot[n].parents, Len(pot[n].parents)) + x[n] + 1]

\* the joint probability of an assignment: the product of the first i nodes'
\* potentials
RECURSIVE JointUpTo(_, _, _)
JointUpTo(pot, x, i) ==
    IF i = 0 THEN One ELSE RMul(JointUpTo(pot, x, i - 1), EntryOf(pot, nodes[i], x))

RECURSIVE SumJoint(_, _)
SumJoint(pot, X) ==
    IF X = {} THEN Zero
    ELSE LET x == CHOOSE y \in X : TRUE
         IN  RAdd(JointUpTo(pot, x, Len(nodes)), SumJoint(pot, X \ {x}))

\* exact inference: the normalised marginal of every node, [P(Good), P(Bad)]
Marginals(pot) ==
    LET X == [DOMAIN pot -> {0, 1}]
        total == SumJoint(pot, X)
    IN  [n \in DOMAIN pot |->
            [v \in 1..2 |-> RDiv(SumJoint(pot, { x \in X : x[n] = v - 1 }), total)]]

\* probs = [p[sample] for p in cpts[node_id]] if cpts[node_id] else [1, 0]
SampleProbs(node_id, smp) ==
    IF cpts[node_id] # <<>>
    THEN [k \in 1..Len(cpts[node_id]) |-> cpts[node_id][k][smp]]
    ELSE <<One, Zero>>

\* the node's state list resized along with its probabilities
SetProbsAndValues(bn, node_id, probs) ==
    [bn EXCEPT ![node_id].probs = probs,
               ![node_id].values = [k \in 1..Len(probs) |->
                                       IF k % 2 = 1 THEN "Good" ELSE "Bad"]]

\* node.probs = probs
SetProbs(bn, node_id, probs) == [bn EXCEPT ![node_id].probs = probs]

\* the inner loop left after its first node
InstallDoneEarly(idx) == idx >= 1

\* the inner loop over bbnNodes.items() has assigned every node
InstallDone(idx) == idx = Len(nodes)

\* target = bbnNodes['tq']; target_probs = []; the first sample begins
InferenceStart ==
    /\ pc = "inference"
    /\ IF "tq" \in DOMAIN bbnNodes
       THEN /\ pc' = "install"
            /\ sample' = 1
            /\ nodeIdx' = 1
       ELSE /\ pc' = "KeyError"
            /\ UNCHANGED <<sample, nodeIdx>>
    /\ target_probs' = <<>>
    /\ UNCHANGED <<nodes, edges, m1, m2, m3, leak, normWeights, weights, superEdges,
                   G, cptCombos, cpts, bbnNodes, bbnEdges, dt_base, join_tree, p>>

\* one iteration of "for node_id, node in bbnNodes.items()"
Install ==
    /\ pc = "install"
    /\ bbnNodes' = SetProbs(bbnNodes, nodes[nodeIdx], SampleProbs(nodes[nodeIdx], sample))
    /\ IF InstallDone(nodeIdx)
       THEN pc' = "apply" /\ UNCHANGED nodeIdx
       ELSE pc' = "install" /\ nodeIdx' = nodeIdx + 1
    /\ UNCHANGED <<nodes, edges, m1, m2, m3, leak, normWeights, weights, superEdges,
                   G, cptCombos, cpts, bbnEdges, dt_base, sample,
                   join_tree, target_probs, p>>

\* InferenceController.apply(dt_base), first half: the potentials are read
\* from the nodes and the join tree is built
BuildTree ==
    /\ pc = "apply"
    /\ join_tree' = [potentials |-> [n \in dt_base.nodes |-> InitPotential(dt_base, n)],
                     marginals  |-> Empty]
    /\ pc' = "propagate"
    /\ UNCHANGED <<nodes, edges, m1, m2, m3, leak, normWeights, weights, superEdges,
                   G, cptCombos, cpts, bbnNodes, bbnEdges, dt_base, sample, nodeIdx,
                   target_probs, p>>

\* InferenceController.apply(dt_base), second half: propagation
Propagate ==
    /\ pc = "propagate"
    /\ join_tree' = [join_tree EXCEPT !.marginals = Marginals(join_tree.potentials)]
    /\ pc' = "extract"
    /\ UNCHANGED <<nodes, edges, m1, m2, m3, leak, normWeights, weights, superEdges,
                   G, cptCombos, cpts, bbnNodes, bbnEdges, dt_base, sample, nodeIdx,
                   target_probs, p>>

\* the potential put in front of the list
ListPrepend(lst, x) == <<x>> \o lst

\* list.append(x)
ListAppend(lst, x) == Append(lst, x)

\* target_probs.append(join_tree.get_bbn_potential(target)), then the next
\* sample or the end of the loop
Extract ==
    /\ pc = "extract"
    /\ target_probs' = ListAppend(target_probs, join_tree.marginals["tq"])
    /\ IF sample < numSamples
       THEN pc' = "install" /\ sample' = sample + 1 /\ nodeIdx' = 1
       ELSE pc' = "p" /\ UNCHANGED <<sample, nodeIdx>>
    /\ UNCHANGED <<nodes, edges, m1, m2, m3, leak, normWeights, weights, superEdges,
                   G, cptCombos, cpts, bbnNodes, bbnEdges, dt_base, join_tree, p>>

\* p = pd.Series([t.entries[1].value for t in target_probs])
PCell ==
    /\ pc = "p"
    /\ p' = [k \in 1..Len(target_probs) |-> target_probs[k][2]]
    /\ pc' = "done"
    /\ UNCHANGED <<nodes, edges, m1, m2, m3, leak, normWeights, weights, superEdges,
                   G, cptCombos, cpts, bbnNodes, bbnEdges, dt_base, sample, nodeIdx,
                   join_tree, target_probs>>

Next ==
    \/ SampleDraws
    \/ NormWeightsCell
    \/ WeightsCell
    \/ SuperEdgesCell
    \/ GCell
    \/ CptCombosCell
    \/ LeakCell
    \/ CptsCell
    \/ BbnNodesCell
    \/ BbnEdgesCell
    \/ DtBaseCell
    \/ InferenceStart
    \/ Install
    \/ BuildTree
    \/ Propagate
    \/ Extract
    \/ PCell

Spec == Init /\ [][Next]_vars
----------------------------------------------------------------------------
(* Properties *)

\* positions of the program
AggregationPcs == {"sample", "normWeights", "weights", "superEdges"}

LoopPcs == {"install", "apply", "propagate", "extract"}

\* the cpts cell has run to its end
CptsDone ==
    pc \in {"bbnNodes", "bbnEdges", "dt_base", "inference", "p", "done"} \cup LoopPcs

\* the (parent, child) pairs of the edge table
Pairs == { EdgeOf(e) : e \in EdgeIds }

EdgesOfPair(pair) == { e \in EdgeIds : EdgeOf(e) = pair }

\* the nodes the CPT generator gave a combination list, with their parents
NodesWithParents ==
    { node \in (DOMAIN cptCombos) \cap Range(nodes) : Len(cptCombos[node][1]) >= 1 }

NumParents(node) == Len(cptCombos[node][1])

\* the product of (1 - superEdgeStrength(p -> node)) over the parents p that
\* combination combo asserts, among its first i parents, in sample s
RECURSIVE AssertedProduct(_, _, _, _)
AssertedProduct(node, combo, s, i) ==
    IF i = 0 THEN One
    ELSE LET prev == AssertedProduct(node, combo, s, i - 1)
         IN  IF combo[i].var
             THEN RMul(prev, RSub(One, superEdges.val[<<combo[i].name, node>>][s]))
             ELSE prev

\* leak * product for the j-th combination of node in sample s
LeakProduct(node, j, s) ==
    RMul(leak[s], AssertedProduct(node, cptCombos[node][j], s, NumParents(node)))

\* positions of the two states of a node, ['Good', 'Bad'], in a CPT row
GoodPos == 1

BadPos == 2

\* the entry of cpts[node] at a state position of the j-th row, in sample s
RowEntry(node, j, pos, s) == cpts[node][2 * (j - 1) + pos][s]

\* C1: before inference runs for any sample, the network holds a directed
\* edge parent -> child for every super-edge: after the construction cell the
\* network's edge set is the set of distinct (parent, child) pairs.
C1_NetworkHasSuperEdges ==
    pc \in {"inference", "p", "done"} \cup LoopPcs
        => dt_base.edges = Range(superEdges.keys)

\* C2: for every node with k >= 1 parents, every sample and every parent
\* combination, the entry at the node's 'Bad' position is
\* 1 - leak * product over the asserted parents of (1 - strength), and the
\* entry at the 'Good' position is 1 minus that.
C2_NoisyOrAtBadPosition ==
    CptsDone =>
        \A node \in NodesWithParents :
            \A j \in 1..Pow2(NumParents(node)) : \A s \in Samples :
                /\ Len(cpts[node]) >= 2 * j
                /\ RowEntry(node, j, BadPos, s) = RSub(One, LeakProduct(node, j, s))
                /\ RowEntry(node, j, GoodPos, s)
                       = RSub(One, RSub(One, LeakProduct(node, j, s)))

\* C3: for every node with k >= 1 parents the flat CPT has exactly 2 * 2^k
\* entries, one pair per parent combination, and the pair at position j is
\* the pair [1 - leak * product, leak * product] of the j-th combination in
\* the enumeration order.
C3_OnePairPerCombination ==
    CptsDone =>
        \A node \in NodesWithParents :
            /\ Len(cpts[node]) = 2 * Pow2(NumParents(node))
            /\ \A j \in 1..Pow2(NumParents(node)) : \A s \in Samples :
                  /\ RowEntry(node, j, 1, s) = RSub(One, LeakProduct(node, j, s))
                  /\ RowEntry(node, j, 2, s) = LeakProduct(node, j, s)

\* the end-to-end scenario: nodes A = a and B = tq, one reference with m1
\* bounds [0.5, 0.5], one edge a -> tq with m2 bounds [0.8, 0.8] and m3 bounds
\* [1, 1], and a sample whose leak is 0.95
EndToEndScenario(s) ==
    /\ nodes = <<"a", "tq">>
    /\ edges = <<EdgeRow("a", "tq", "r1", Rat(4, 5), One)>>
    /\ leak[s] = Rat(19, 20)

\* C4: in the end-to-end scenario the super-edge strength of (A, B) is 0.8,
\* the CPT row of B for the combination that asserts A (A = Unfavorable) is
\* [0.81, 0.19], and the target marginal of B, A's prior being [1, 0], is the
\* CPT row of B for the other combination (A = Favorable).
C4_EndToEnd ==
    pc = "done" =>
        \A s \in Samples :
            EndToEndScenario(s) =>
                /\ superEdges.val[<<"a", "tq">>][s] = Rat(4, 5)
                /\ cptCombos["tq"][1][1].var /\ ~cptCombos["tq"][2][1].var
                /\ <<RowEntry("tq", 1, 1, s), RowEntry("tq", 1, 2, s)>>
                       = <<Rat(81, 100), Rat(19, 100)>>
                /\ target_probs[s] = <<RowEntry("tq", 2, 1, s), RowEntry("tq", 2, 2, s)>>

\* what the notebook computes in the end-to-end scenario: the target marginal
\* is the first CPT row, [0.81, 0.19], and P(tq = Bad) is 0.19
EndToEndComputed ==
    pc = "done" =>
        \A s \in Samples :
            EndToEndScenario(s) =>
                /\ target_probs[s] = <<Rat(81, 100), Rat(19, 100)>>
                /\ p[s] = Rat(19, 100)

\* sums over the contributing edges of a pair among the first n rows, sample s
RECURSIVE SumRaw(_, _, _)
SumRaw(pair, s, n) ==
    IF n = 0 THEN Zero
    ELSE IF EdgeOf(n) = pair
         THEN RAdd(SumRaw(pair, s, n - 1), RMul(m1[edges[n].ref_id][s], m3[n][s]))
         ELSE SumRaw(pair, s, n - 1)

RECURSIVE SumWeights(_, _, _)
SumWeights(pair, s, n) ==
    IF n = 0 THEN Zero
    ELSE IF EdgeOf(n) = pair
         THEN RAdd(SumWeights(pair, s, n - 1), weights[n][s])
         ELSE SumWeights(pair, s, n - 1)

RLt(x, y) == RLe(x, y) /\ x # y

\* C5: for every sample and every (parent, child) pair whose raw weights
\* (m1 of the edge's reference times the edge's m3) do not sum to zero, the
\* normalized weights of the pair's edges sum to 1 and the super-edge strength
\* lies between the least and the greatest m2 draw of those edges.
C5_WeightsNormalised ==
    pc \notin AggregationPcs =>
        \A pair \in Pairs : \A s \in Samples :
            SumRaw(pair, s, Len(edges)) # Zero =>
                /\ SumWeights(pair, s, Len(edges)) = One
                /\ \E e \in EdgesOfPair(pair) : RLe(m2[e][s], superEdges.val[pair][s])
                /\ \E e \in EdgesOfPair(pair) : RLe(superEdges.val[pair][s], m2[e][s])

\* two edges of one pair cite the same reference, carry different weights and
\* different m2 draws, and the strength lies strictly between the draws
C5_Witness ==
    /\ pc = "G"
    /\ \E pair \in Pairs : \E e1, e2 \in EdgesOfPair(pair) : \E s \in Samples :
          /\ e1 # e2
          /\ edges[e1].ref_id = edges[e2].ref_id
          /\ weights[e1][s] # weights[e2][s]
          /\ RLt(m2[e1][s], superEdges.val[pair][s])
          /\ RLt(superEdges.val[pair][s], m2[e2][s])

\* a node with zero parents: no row of the edge table has it as child
ZeroParents(n) == \A e \in EdgeIds : edges[e].child_id # n

\* C6: a node with zero parents (a root of the graph, or a node of the node
\* table that is in no edge) carries the CPT [1, 0] in every sample, whatever
\* the draws: its cpts list is empty, the values installed on it are [1, 0]
\* and so is the potential inference reads from it.
C6_ParentlessNodeIsFavorable ==
    pc \in LoopPcs \cup {"p", "done"} =>
        \A n \in Range(nodes) :
            ZeroParents(n) =>
                /\ cpts[n] = <<>>
                /\ bbnNodes[n].probs = <<One, Zero>>
                /\ pc \in {"propagate", "extract"}
                      => join_tree.potentials[n].entries = <<One, Zero>>

\* the last sample is being extracted, a root with a child and a node in no
\* edge both carry [1, 0] and the target carries sampled values
C6_Witness ==
    /\ pc = "extract" /\ sample = numSamples
    /\ \E r, i \in Range(nodes) :
          /\ ZeroParents(r) /\ \E e \in EdgeIds : edges[e].parent_id = r
          /\ ZeroParents(i) /\ \A e \in EdgeIds : edges[e].parent_id # i
          /\ bbnNodes[r].probs = <<One, Zero>>
          /\ bbnNodes[i].probs = <<One, Zero>>
    /\ bbnNodes["tq"].probs # <<One, Zero>>

\* C7: when the raw weights of a pair sum to exactly zero in some sample,
\* aggregation fails: no super-edge strength is produced for the pair and the
\* program does not go on to the graph, the CPTs or inference.
C7_DegenerateAggregationFails ==
    pc # "sample" =>
        \A pair \in Pairs :
            (\E s \in Samples : SumRaw(pair, s, Len(edges)) = Zero) =>
                /\ pair \notin DOMAIN superEdges.val
                /\ pc \in AggregationPcs

\* the nodes one step along the pairs from a set of nodes
Step(S) == { pair[2] : pair \in { q \in Pairs : q[1] \in S } }

\* a directed cycle (a self-loop included) among the three node ids
HasCycle == \E u \in NodeIds : u \in Step({u}) \cup Step(Step({u})) \cup Step(Step(Step({u})))

HasSelfLoop == \E pair \in Pairs : pair[1] = pair[2]

InvalidGraph == HasSelfLoop \/ HasCycle \/ "tq" \notin Range(nodes)

\* C8: an input whose pairs contain a self-loop or a directed cycle, or whose
\* target is not in the node table, is rejected at graph construction: it
\* reaches neither CPT generation nor the inference loop.
C8_InvalidGraphRejected ==
    InvalidGraph => pc \in AggregationPcs \cup {"G", "cptCombos"}

\* the values sample smp assigns to a node
ValuesOfSample(n, smp) ==
    IF cpts[n] = <<>> THEN <<One, Zero>>
    ELSE [k \in 1..Len(cpts[n]) |-> cpts[n][k][smp]]

\* C9: within a sample iteration inference starts only after every node has
\* had its probabilities replaced by this sample's values ([1, 0] for a node
\* without CPT): when the tree is built, propagated and the marginal is
\* extracted, every node carries the values of the current sample, the tree's
\* potentials are read from them, and one marginal per earlier sample has
\* been extracted.
C9_InstallBeforeInference ==
    /\ pc \in {"apply", "propagate", "extract"} =>
          /\ \A n \in Range(nodes) : bbnNodes[n].probs = ValuesOfSample(n, sample)
          /\ Len(target_probs) = sample - 1
    /\ pc \in {"propagate", "extract"} =>
          \A n \in Range(nodes) :
              join_tree.potentials[n].entries = SubSeq(ValuesOfSample(n, sample), 1, 2)
    /\ pc = "install" => Len(target_probs) = sample - 1

\* the second sample's inference starts, the first sample's values differ
\* from the second's on some node, and a later node than the first is concerned
C9_Witness ==
    /\ pc = "apply" /\ sample = 2
    /\ \E i \in 2..Len(nodes) : ValuesOfSample(nodes[i], 1) # ValuesOfSample(nodes[i], 2)

\* structure of a node: everything but its probabilities
Structure(node) == [id |-> node.id, name |-> node.name, values |-> node.values]

\* the step leaves the network's nodes, edges and state spaces as they are
StructureKept ==
    /\ dt_base' = dt_base
    /\ bbnEdges' = bbnEdges
    /\ DOMAIN bbnNodes' = DOMAIN bbnNodes
    /\ \A n \in DOMAIN bbnNodes : Structure(bbnNodes'[n]) = Structure(bbnNodes[n])

\* C10: the inference loop leaves the network's structure alone: its node
\* set, its edge set and every node's state space stay as they are across all
\* sample iterations; only the nodes' probabilities change.
C10_StructureUnchanged == [][(pc \in LoopPcs) => StructureKept]_vars

\* in the second sample the target carries other probabilities than in the
\* first, on the network of the node table
C10_Witness ==
    /\ pc = "apply" /\ sample = 2
    /\ dt_base.nodes = Range(nodes)
    /\ bbnNodes["tq"].probs # ValuesOfSample("tq", 1)
    /\ bbnNodes["tq"].values = <<"Good", "Bad">>

\* the potentials inference reads from the network when every node carries
\* the values of sample smp
PotentialsOfSample(smp) ==
    [n \in dt_base.nodes |->
        [parents |-> NetParents(dt_base, n),
         entries |-> SubSeq(ValuesOfSample(n, smp), 1,
                            Pow2(Len(NetParents(dt_base, n)) + 1))]]

\* C11: after the run has completed, the output sequence holds exactly
\* numSamples values and its i-th value is the target's marginal at the 'Bad'
\* position inferred from the i-th sample's values: one value per sample
\* iteration, in sample order, none dropped, duplicated or reordered.
C11_OneMarginalPerSample ==
    pc = "done" =>
        /\ Len(p) = numSamples
        /\ Len(target_probs) = numSamples
        /\ \A i \in Samples :
              p[i] = Marginals(PotentialsOfSample(i))["tq"][BadPos]

\* the run has completed and the first two samples gave different marginals,
\* so that a reordering would show
C11_Witness ==
    /\ pc = "done"
    /\ Len(p) = numSamples
    /\ ~IsNaN(p[1]) /\ ~IsNaN(p[2])
    /\ p[1] # p[2]
====
